---- MODULE Spec2Model ----
(***************************************************************************)
(* ZenOS core algorithms: the SM-2 review scheduler                        *)
(* (src/services/spaced_repetition.py) and the weighted grade engine       *)
(* (src/services/grade_calculator.py).                                     *)
(*                                                                         *)
(* Number representation.  The Python code works on floats.  Easiness      *)
(* factors are carried here as exact integers in hundredths (2.5 is 250):  *)
(* every SM-2 delta is a multiple of 0.02, so hundredths are closed under  *)
(* the update (a float easiness can sit one ulp under its decimal value,   *)
(* so int(interval * easiness) is taken here of the exact product).        *)
(* Dates are day numbers.  The grade engine is computed in IEEE 754        *)
(* binary64, operation by operation (round to nearest, ties to even), on   *)
(* integer-valued inputs; its rounded result is carried in hundredths of   *)
(* a percent.                                                              *)
(***************************************************************************)
EXTENDS Integers, Sequences, FiniteSets, TLC

VARIABLES today, card, args, raised, reviews, fives,
          cards, dueCalls,
          grades, gradeResult, reordered, predicted,
          course, timetable, attendance, clicked,
          review, planned, browser

vars == <<today, card, args, raised, reviews, fives,
          cards, dueCalls, grades, gradeResult, reordered,
          predicted, course, timetable, attendance, clicked,
          review, planned, browser>>

sm2Vars == <<card, args, raised, reviews, fives>>
dueVars == <<cards, dueCalls>>
gradeVars == <<grades, gradeResult, reordered>>
predictVars == <<predicted>>
attendanceVars == <<course, timetable, attendance, clicked>>
pageVars == <<review, planned, browser>>

(***************************************************************************)
(* Bounds of the model.                                                    *)
(***************************************************************************)
MaxReviews == 5
MaxDay == 2
MaxPriorInterval == 4
MaxPriorReps == 3
MaxPriorEasinessSteps == 20
PriorDepth == 2
MaxCards == 3
MaxGrades == 2
MaxScore == 1
MaxWeight == 2
MaxQuarters == 4
MaxWeeks == 3
MaxEntries == 2
MaxSkipped == 6
MaxLongSkipped == 35
MaxTermDay == 13
MaxRatings == 3
MaxSessions == 2
MaxTasks == 2
MaxMisses == 1
MaxClicks == 3

(***************************************************************************)
(* Program constants (src/utils/constants.py), in hundredths.              *)
(***************************************************************************)
SM2_MIN_EASINESS == 130
SM2_DEFAULT_EASINESS == 250

\* Flashcard.last_reviewed is nullable: the value of a card never reviewed.
NoDate == -1
\* None in a nullable column
Null == -1
DEFAULT_THRESHOLD == 75

Max(a, b) == IF a >= b THEN a ELSE b
Min(a, b) == IF a <= b THEN a ELSE b
Abs(a) == IF a >= 0 THEN a ELSE -a

\* Python int(n/d) on a float: truncation toward zero (d > 0).
IntTrunc(n, d) == IF n >= 0 THEN n \div d ELSE -((-n) \div d)

(***************************************************************************)
(* Binary64 arithmetic.  A non-negative float is its exact value times     *)
(* 2^75, written in limbs of 15 bits, lowest first (zero is <<>>); this is *)
(* exact for zero and for every float from 2^-22 up, which covers the      *)
(* values the grade engine and the attendance projector meet, but for the  *)
(* residue of total - skipped hours, which only feeds a rounding to        *)
(* hundredths.                                                             *)
(***************************************************************************)
LimbBits == 15
LimbBase == 32768
FracLimbs == 5
MantissaBits == 53

\* 2^n for n < LimbBits
PowersOf2 == <<1, 2, 4, 8, 16, 32, 64, 128, 256, 512, 1024, 2048, 4096, 8192, 16384>>
Pow2(n) == PowersOf2[n + 1]

RECURSIVE BitLength(_)
BitLength(n) == IF n = 0 THEN 0 ELSE 1 + BitLength(n \div 2)

RECURSIVE LimbsOfInt(_)
LimbsOfInt(n) == IF n = 0 THEN <<>> ELSE <<n % LimbBase>> \o LimbsOfInt(n \div LimbBase)

RECURSIVE IntOfLimbs(_, _)
IntOfLimbs(limbs, i) ==
    IF i > Len(limbs) THEN 0 ELSE limbs[i] + LimbBase * IntOfLimbs(limbs, i + 1)

ZeroLimbs(n) == [i \in 1 .. n |-> 0]

RECURSIVE TrimHigh(_)
\* the limbs without their high zero limbs
TrimHigh(limbs) ==
    IF limbs = <<>> \/ limbs[Len(limbs)] # 0 THEN limbs
    ELSE TrimHigh(SubSeq(limbs, 1, Len(limbs) - 1))

RECURSIVE MulCarry(_, _, _, _)
MulCarry(limbs, i, c, carry) ==
    IF i > Len(limbs) THEN LimbsOfInt(carry)
    ELSE <<(limbs[i] * c + carry) % LimbBase>>
         \o MulCarry(limbs, i + 1, c, (limbs[i] * c + carry) \div LimbBase)

RECURSIVE AddCarry(_, _, _, _)
AddCarry(a, b, i, carry) ==
    IF i > Len(a) /\ i > Len(b) THEN LimbsOfInt(carry)
    ELSE LET t == (IF i <= Len(a) THEN a[i] ELSE 0)
                  + (IF i <= Len(b) THEN b[i] ELSE 0) + carry
         IN  <<t % LimbBase>> \o AddCarry(a, b, i + 1, t \div LimbBase)

RECURSIVE DivStep(_, _, _, _)
\* long division of limbs[1..i] (rem carried in from above) by c: the
\* quotient limbs, preceded by a flag telling a non-zero remainder
DivStep(limbs, i, c, rem) ==
    IF i = 0 THEN <<IF rem # 0 THEN 1 ELSE 0>>
    ELSE DivStep(limbs, i - 1, c, (rem * LimbBase + limbs[i]) % c)
         \o <<(rem * LimbBase + limbs[i]) \div c>>

\* number of significant bits of a trimmed limb sequence
BitLengthOf(limbs) ==
    IF limbs = <<>> THEN 0
    ELSE LimbBits * (Len(limbs) - 1) + BitLength(limbs[Len(limbs)])

\* bit k (from 0) of the number
BitAt(limbs, k) ==
    IF k \div LimbBits + 1 > Len(limbs) THEN 0
    ELSE (limbs[k \div LimbBits + 1] \div Pow2(k % LimbBits)) % 2

\* whether any of the bits 0 .. k-1 is set
AnyBitBelow(limbs, k) ==
    \/ \E i \in 1 .. Min(k \div LimbBits, Len(limbs)) : limbs[i] # 0
    \/ (k \div LimbBits + 1 <= Len(limbs)
        /\ limbs[k \div LimbBits + 1] % Pow2(k % LimbBits) # 0)

\* the number with its bits 0 .. k-1 cleared
ClearBelow(limbs, k) ==
    [i \in 1 .. Len(limbs) |->
        IF i <= k \div LimbBits THEN 0
        ELSE IF i = k \div LimbBits + 1
             THEN limbs[i] - (limbs[i] % Pow2(k % LimbBits))
             ELSE limbs[i]]

\* 2^k as limbs
UnitAt(k) == ZeroLimbs(k \div LimbBits) \o <<Pow2(k % LimbBits)>>

\* IEEE 754 round-to-nearest, ties-to-even, of the exact number `limbs`
\* (plus a positive amount below its lowest bit when sticky) to 53
\* significant bits
RoundNearestEven(limbs, sticky) ==
    LET d == BitLengthOf(limbs) - MantissaBits
    IN  IF d <= 0 THEN limbs
        ELSE IF BitAt(limbs, d - 1) = 1
                /\ (sticky \/ AnyBitBelow(limbs, d - 1) \/ BitAt(limbs, d) = 1)
             THEN AddCarry(ClearBelow(limbs, d), UnitAt(d), 1, 0)
             ELSE ClearBelow(limbs, d)

\* a float is its exact value times 2^75, as limbs
FloatOfInt(n) == IF n = 0 THEN <<>> ELSE ZeroLimbs(FracLimbs) \o LimbsOfInt(n)

FloatMulInt(x, c) == RoundNearestEven(TrimHigh(MulCarry(x, 1, c, 0)), FALSE)

FloatAdd(x, y) == RoundNearestEven(AddCarry(x, y, 1, 0), FALSE)

FloatDivInt(x, c) ==
    LET d == DivStep(<<0>> \o x, Len(x) + 1, c, 0)
    IN  IF x = <<>> THEN <<>>
        ELSE Tail(RoundNearestEven(TrimHigh(Tail(d)), Head(d) = 1))

RECURSIVE SubBorrow(_, _, _, _)
\* a - b for a >= b
SubBorrow(a, b, i, borrow) ==
    IF i > Len(a) THEN <<>>
    ELSE LET t == a[i] - (IF i <= Len(b) THEN b[i] ELSE 0) - borrow
         IN  <<t % LimbBase>> \o SubBorrow(a, b, i + 1, IF t < 0 THEN 1 ELSE 0)

RECURSIVE LimbsLessFrom(_, _, _)
\* a < b for two trimmed sequences of one length, compared from limb i down
LimbsLessFrom(a, b, i) ==
    IF i = 0 THEN FALSE
    ELSE IF a[i] # b[i] THEN a[i] < b[i]
    ELSE LimbsLessFrom(a, b, i - 1)

\* a < b for trimmed sequences
LimbsLess(a, b) ==
    IF Len(a) # Len(b) THEN Len(a) < Len(b) ELSE LimbsLessFrom(a, b, Len(a))

RECURSIVE MulLimbs(_, _, _)
\* the product of x and the limbs i .. Len(y) of y
MulLimbs(x, y, i) ==
    IF i > Len(y) THEN <<>>
    ELSE AddCarry(MulCarry(x, 1, y[i], 0), <<0>> \o MulLimbs(x, y, i + 1), 1, 0)

RECURSIVE QuotCorrect(_, _, _)
\* the largest q <= qhat with q * v <= r
QuotCorrect(r, v, qhat) ==
    IF ~LimbsLess(r, TrimHigh(MulCarry(v, 1, qhat, 0))) THEN qhat
    ELSE QuotCorrect(r, v, qhat - 1)

\* the quotient digit of r by v, for r < v * LimbBase and the top limb of v
\* at least LimbBase / 2
QuotDigit(r, v) ==
    IF Len(r) < Len(v) THEN 0
    ELSE LET top == IF Len(r) > Len(v)
                    THEN r[Len(v) + 1] * LimbBase + r[Len(v)]
                    ELSE r[Len(v)]
         IN  QuotCorrect(r, v, Min(top \div v[Len(v)], LimbBase - 1))

RECURSIVE DivLimbs(_, _, _, _)
\* long division of u[1..i] (rem carried in from above) by the limbs v: the
\* quotient limbs, preceded by a flag telling a non-zero remainder
DivLimbs(u, i, v, rem) ==
    IF i = 0 THEN <<IF rem # <<>> THEN 1 ELSE 0>>
    ELSE LET r == TrimHigh(<<u[i]>> \o rem)
             q == QuotDigit(r, v)
             next == TrimHigh(SubBorrow(r, MulCarry(v, 1, q, 0), 1, 0))
         IN  \* the remainder is computed before the next limb is taken
             IF Len(next) >= 0 THEN DivLimbs(u, i - 1, v, next) \o <<q>> ELSE <<>>

\* x - y for x >= y
FloatSub(x, y) == RoundNearestEven(TrimHigh(SubBorrow(x, y, 1, 0)), FALSE)

FloatLess(x, y) == LimbsLess(x, y)

\* the limbs above the lowest n
DropLow(limbs, n) == SubSeq(limbs, n + 1, Len(limbs))

FloatMul(x, y) ==
    IF x = <<>> \/ y = <<>> THEN <<>>
    ELSE DropLow(RoundNearestEven(TrimHigh(MulLimbs(x, y, 1)), FALSE), FracLimbs)

\* x / y for y > 0: both are first scaled to bring the top limb of y to
\* LimbBase / 2 or more
FloatDiv(x, y) ==
    LET s == Pow2(LimbBits - BitLength(y[Len(y)]))
        u == ZeroLimbs(FracLimbs + 1) \o MulCarry(x, 1, s, 0)
        d == DivLimbs(u, Len(u), MulCarry(y, 1, s, 0), <<>>)
    IN  IF x = <<>> THEN <<>>
        ELSE Tail(RoundNearestEven(TrimHigh(Tail(d)), Head(d) = 1))

\* int(x)
FloatTrunc(x) == IntOfLimbs(x, FracLimbs + 1)

\* Python round(x, 2), in hundredths: the exact binary value times 100,
\* rounded half to even
FloatRound2(x) ==
    LET y == MulCarry(x, 1, 100, 0)
        whole == IntOfLimbs(y, FracLimbs + 1)
        k == LimbBits * FracLimbs
    IN  IF x = <<>> THEN 0
        ELSE IF BitAt(y, k - 1) = 1 /\ (AnyBitBelow(y, k - 1) \/ whole % 2 = 1)
             THEN whole + 1
             ELSE whole

\* a course row with the column defaults and no dates
NewCourse ==
    [start_date           |-> NoDate,
     end_date             |-> NoDate,
     skipped_classes      |-> 0,
     attendance_threshold |-> FloatOfInt(DEFAULT_THRESHOLD)]

(***************************************************************************)
(* calculate_next_review(quality, easiness_factor, interval_days,          *)
(* repetitions), with date.today() passed as `day`.                        *)
(***************************************************************************)
\* Slip: the linear coefficient 0.08 applied once, not per missing grade.
UpdateEasiness_FlatPenalty(quality, ef) ==
    ef + (10 - (8 + (5 - quality) * (5 - quality) * 2))

\* line 27: easiness_factor + (0.1 - (5 - q) * (0.08 + (5 - q) * 0.02))
UpdateEasiness(quality, ef) ==
    ef + (10 - (5 - quality) * (8 + (5 - quality) * 2))

\* Slip: the floor is not applied.
EnsureMinimum_NoFloor(ef) == ef

\* lines 30-31
EnsureMinimum(ef) == IF ef < SM2_MIN_EASINESS THEN SM2_MIN_EASINESS ELSE ef

\* Slip: the interval is never multiplied by the easiness.
NextInterval_FlatSix(quality, ef, interval_days, repetitions) ==
    IF quality < 3 THEN 1
    ELSE IF repetitions = 0 THEN 1
    ELSE 6

\* Slip: a quality of 2 is counted as a correct response.
NextInterval_PassAtTwo(quality, ef, interval_days, repetitions) ==
    IF quality < 2 THEN 1
    ELSE IF repetitions = 0 THEN 1
    ELSE IF repetitions = 1 THEN 6
    ELSE IntTrunc(interval_days * ef, 100)

\* Slip: a forgotten card is rescheduled for the same day.
NextInterval_ResetZero(quality, ef, interval_days, repetitions) ==
    IF quality < 3 THEN 0
    ELSE IF repetitions = 0 THEN 1
    ELSE IF repetitions = 1 THEN 6
    ELSE IntTrunc(interval_days * ef, 100)

\* lines 34-47, the interval; ef is the easiness already updated
NextInterval(quality, ef, interval_days, repetitions) ==
    IF quality < 3 THEN 1
    ELSE IF repetitions = 0 THEN 1
    ELSE IF repetitions = 1 THEN 6
    ELSE IntTrunc(interval_days * ef, 100)

\* lines 34-47, the repetition count
NextRepetitions(quality, repetitions) ==
    IF quality < 3 THEN 0 ELSE repetitions + 1

\* Slip: the date is not moved by the interval.
NextReviewDate_Today(day, interval_days) == day

\* line 50
NextReviewDate(day, interval_days) == day + interval_days

\* Slip: the interval is grown with the easiness of before this review.
calculate_next_review_OldEasiness(quality, easiness_factor, interval_days, repetitions, day) ==
    LET ef == EnsureMinimum(UpdateEasiness(quality, easiness_factor))
        iv == NextInterval(quality, easiness_factor, interval_days, repetitions)
    IN  [easiness_factor  |-> ef,
         interval_days    |-> iv,
         repetitions      |-> NextRepetitions(quality, repetitions),
         next_review_date |-> NextReviewDate(day, iv)]

calculate_next_review(quality, easiness_factor, interval_days, repetitions, day) ==
    LET ef == EnsureMinimum(UpdateEasiness(quality, easiness_factor))
        iv == NextInterval(quality, ef, interval_days, repetitions)
    IN  [easiness_factor  |-> ef,
         interval_days    |-> iv,
         repetitions      |-> NextRepetitions(quality, repetitions),
         next_review_date |-> NextReviewDate(day, iv)]

\* Slip: a new card starts with the six-day interval.
initialize_card_SixDays(day) ==
    [easiness_factor  |-> SM2_DEFAULT_EASINESS,
     interval_days    |-> 6,
     repetitions      |-> 0,
     next_review_date |-> day + 6]

initialize_card(day) ==
    [easiness_factor  |-> SM2_DEFAULT_EASINESS,
     interval_days    |-> 1,
     repetitions      |-> 0,
     next_review_date |-> day]

\* A stored Flashcard: the SM-2 fields plus last_reviewed.
NewFlashcard(day) ==
    [easiness_factor  |-> initialize_card(day).easiness_factor,
     interval_days    |-> initialize_card(day).interval_days,
     repetitions      |-> initialize_card(day).repetitions,
     next_review_date |-> initialize_card(day).next_review_date,
     last_reviewed    |-> NoDate,
     created_at       |-> day]

Qualities == 0 .. 5
\* quality is a plain int parameter: a caller can pass any integer
AnyQuality == -1 .. 6

(***************************************************************************)
(* One review of the card: the call of calculate_next_review and the       *)
(* write-back of its result.                                               *)
(***************************************************************************)
ReviewCard(quality) ==
    /\ reviews < MaxReviews
    /\ LET r == calculate_next_review(quality, card.easiness_factor,
                                      card.interval_days, card.repetitions, today)
       IN  card' = [easiness_factor  |-> r.easiness_factor,
                    interval_days    |-> r.interval_days,
                    repetitions      |-> r.repetitions,
                    next_review_date |-> r.next_review_date,
                    last_reviewed    |-> today,
                    created_at       |-> card.created_at]
    /\ args' = <<[quality          |-> quality,
                  easiness_factor  |-> card.easiness_factor,
                  interval_days    |-> card.interval_days,
                  repetitions      |-> card.repetitions,
                  day              |-> today]>>
    /\ raised' = "none"
    /\ reviews' = reviews + 1
    /\ fives' = IF quality = 5 THEN fives + 1 ELSE fives
    /\ UNCHANGED <<today, dueVars, gradeVars, predictVars, attendanceVars, pageVars>>

\* The calendar moves on to the next day.
AdvanceDay ==
    /\ today < MaxDay
    /\ today' = today + 1
    /\ UNCHANGED <<sm2Vars, dueVars, gradeVars, predictVars, attendanceVars, pageVars>>

InitIdle ==
    /\ cards = <<>>
    /\ dueCalls = <<>>
    /\ grades = <<>>
    /\ gradeResult = <<>>
    /\ reordered = <<>>
    /\ predicted = <<>>
    /\ review = <<>>
    /\ planned = <<>>
    /\ browser = <<>>
    /\ course = NewCourse
    /\ timetable = <<>>
    /\ attendance = <<>>
    /\ clicked = <<>>

\* A card freshly created by initialize_card.
Init ==
    /\ today = 0
    /\ card = NewFlashcard(today)
    /\ args = <<>>
    /\ raised = "none"
    /\ reviews = 0
    /\ fives = 0
    /\ InitIdle

Next ==
    \/ \E quality \in Qualities : ReviewCard(quality)
    \/ AdvanceDay

Spec == Init /\ [][Next]_vars

(***************************************************************************)
(* calculate_next_review as a pure function of any prior card state of the *)
(* data model (easiness >= 1.3, interval >= 1, repetitions >= 0).          *)
(***************************************************************************)
PriorEasiness == { SM2_MIN_EASINESS + 6 * k : k \in 0 .. MaxPriorEasinessSteps }

InitAnyCard ==
    /\ today \in 0 .. MaxDay
    /\ \E ef \in PriorEasiness, iv \in 1 .. MaxPriorInterval, reps \in 0 .. MaxPriorReps :
          card = [easiness_factor  |-> ef,
                  interval_days    |-> iv,
                  repetitions      |-> reps,
                  next_review_date |-> today,
                  last_reviewed    |-> NoDate,
                  created_at       |-> 0]
    /\ args = <<>>
    /\ raised = "none"
    \* PriorDepth calls are made on each prior state
    /\ reviews = MaxReviews - PriorDepth
    /\ fives = 0
    /\ InitIdle

NextSM2 == \E quality \in Qualities : ReviewCard(quality)

SpecSM2 == InitAnyCard /\ [][NextSM2]_vars

\* The same function called with any integer quality.
NextAnyQuality == \E quality \in AnyQuality : ReviewCard(quality)

SpecAnyQuality == InitAnyCard /\ [][NextAnyQuality]_vars

(***************************************************************************)
(* Properties of the review scheduler.                                     *)
(***************************************************************************)
Called == Len(args) = 1
Arg == args[1]

\* floor(n / d) for d > 0, stated by its defining inequalities
IsFloorOf(f, n, d) == f * d <= n /\ n < (f + 1) * d

\* the SM-2 easiness deltas per quality, in hundredths
EasinessDelta(quality) ==
    CASE quality = 5 -> 10
      [] quality = 4 -> 0
      [] quality = 3 -> -14
      [] quality = 2 -> -32
      [] quality = 1 -> -54
      [] quality = 0 -> -80

\* C1: starting from any card with easiness >= 1.3, after any sequence of
\* reviews with qualities 0..5 the easiness factor is never below 1.3.
C1_EasinessFloor == card.easiness_factor >= SM2_MIN_EASINESS

\* a review whose raw update fell below the floor and was lifted to it
C1_Witness ==
    /\ Called
    /\ Arg.quality \in Qualities
    /\ Arg.easiness_factor + EasinessDelta(Arg.quality) < SM2_MIN_EASINESS
    /\ card.easiness_factor = SM2_MIN_EASINESS

\* C2: a quality outside 0..5 is rejected with InvalidQuality and the card
\* gets no new state.
C2_InvalidQualityRejected ==
    (Called /\ Arg.quality \notin Qualities)
        => /\ raised = "InvalidQuality"
           /\ card.easiness_factor = Arg.easiness_factor
           /\ card.interval_days = Arg.interval_days
           /\ card.repetitions = Arg.repetitions

\* C3: for every prior state and every quality in {0,1,2} the review
\* returns repetitions = 0 and interval_days = 1.
C3_ForgottenResets ==
    (Called /\ Arg.quality \in {0, 1, 2})
        => card.repetitions = 0 /\ card.interval_days = 1

\* a card with a grown interval and several repetitions is forgotten
C3_Witness ==
    /\ Called
    /\ Arg.quality = 2
    /\ Arg.repetitions >= 2
    /\ Arg.interval_days > 1
    /\ card.repetitions = 0

\* C4: for every quality 0..5 the new easiness is
\* max(1.3, old + delta(quality)) with deltas +0.10, 0, -0.14, -0.32,
\* -0.54, -0.80; a forgotten review does not reset it to the default.
C4_EasinessUpdate ==
    (Called /\ Arg.quality \in Qualities)
        => card.easiness_factor =
              Max(SM2_MIN_EASINESS, Arg.easiness_factor + EasinessDelta(Arg.quality))

\* a forgotten review that leaves an easiness above the floor and off the default
C4_Witness ==
    /\ Called
    /\ Arg.quality = 1
    /\ card.repetitions = 0
    /\ card.easiness_factor = Arg.easiness_factor - 54
    /\ card.easiness_factor > SM2_MIN_EASINESS
    /\ card.easiness_factor # SM2_DEFAULT_EASINESS

\* C5: for quality >= 3 the interval is 1 after repetitions 0, 6 after
\* repetitions 1, otherwise floor(old interval * NEW easiness), and the
\* repetitions grow by one.
C5_SuccessInterval ==
    (Called /\ Arg.quality \in {3, 4, 5})
        => /\ card.repetitions = Arg.repetitions + 1
           /\ Arg.repetitions = 0 => card.interval_days = 1
           /\ Arg.repetitions = 1 => card.interval_days = 6
           /\ Arg.repetitions >= 2 =>
                 IsFloorOf(card.interval_days,
                           Arg.interval_days * card.easiness_factor, 100)

\* a third-or-later success where old and new easiness give different floors
C5_Witness ==
    /\ Called
    /\ Arg.quality = 3
    /\ Arg.repetitions >= 2
    /\ ~IsFloorOf(card.interval_days, Arg.interval_days * Arg.easiness_factor, 100)

\* C6: a new card has easiness 2.5, interval 1, repetitions 0 and is due
\* on the day it is created; three reviews of quality 5 in a row give the
\* intervals 1, 6, floor(6 * 2.8) = 16 with repetitions 1, 2, 3.
C6_FirstThreePerfectReviews ==
    /\ reviews = 0 =>
          /\ card.easiness_factor = 250
          /\ card.interval_days = 1
          /\ card.repetitions = 0
          /\ card.next_review_date = card.created_at
          /\ card.next_review_date <= today
    /\ (reviews = 1 /\ fives = 1) =>
          card.interval_days = 1 /\ card.repetitions = 1
    /\ (reviews = 2 /\ fives = 2) =>
          card.interval_days = 6 /\ card.repetitions = 2
    /\ (reviews = 3 /\ fives = 3) =>
          /\ card.easiness_factor = 280
          /\ IsFloorOf(card.interval_days, 6 * card.easiness_factor, 100)
          /\ card.interval_days = 16
          /\ card.repetitions = 3

C6_Witness == reviews = 3 /\ fives = 3 /\ card.repetitions = 3

\* C7: the next review date is the day of the review plus the returned
\* interval, so the card is not due again on the day of its review.
C7_NextReviewDate ==
    Called => /\ card.next_review_date = Arg.day + card.interval_days
              /\ card.next_review_date > Arg.day

\* a review on a later day than day 0, with a grown interval
C7_Witness ==
    /\ Called
    /\ Arg.day > 0
    /\ card.interval_days > 6
    /\ card.next_review_date = Arg.day + card.interval_days

\* C8: a card made by initialize_card and reviewed any number of times
\* with qualities 0..5 has interval_days >= 1 and repetitions >= 0.
C8_CardInvariant == card.interval_days >= 1 /\ card.repetitions >= 0

\* the smallest product a created card meets: interval 6 at the easiness floor
C8_Witness ==
    /\ Called
    /\ Arg.quality >= 3
    /\ Arg.repetitions >= 2
    /\ Arg.interval_days = 6
    /\ card.easiness_factor = SM2_MIN_EASINESS
    /\ card.interval_days = 7

(***************************************************************************)
(* get_cards_due_today(cards), with date.today() passed as `day`.  A card  *)
(* of the list is the Flashcard row reduced to its primary key and the one *)
(* field the filter reads.                                                 *)
(***************************************************************************)
\* Slip: a card due exactly today is left out.
get_cards_due_today_Strict(cs, day) ==
    SelectSeq(cs, LAMBDA c : c.next_review_date < day)

get_cards_due_today(cs, day) ==
    SelectSeq(cs, LAMBDA c : c.next_review_date <= day)

\* The Review tab: the stored cards are queried and filtered.  The two most
\* recent calls are kept, the latest first.
GetCardsDueToday ==
    /\ dueCalls' = SubSeq(<<[cards  |-> cards,
                             today  |-> today,
                             result |-> get_cards_due_today(cards, today)]>>
                          \o dueCalls, 1, Min(2, Len(dueCalls) + 1))
    /\ UNCHANGED <<today, cards, sm2Vars, gradeVars, predictVars, attendanceVars, pageVars>>

DueDates == 0 .. (MaxDay + 1)

InitDeck ==
    /\ today = 0
    /\ \E n \in 0 .. MaxCards :
          \E dates \in [1 .. n -> DueDates] :
             cards = [i \in 1 .. n |-> [id |-> i, next_review_date |-> dates[i]]]
    /\ dueCalls = <<>>
    /\ card = NewFlashcard(today)
    /\ args = <<>>
    /\ raised = "none"
    /\ reviews = 0
    /\ fives = 0
    /\ grades = <<>>
    /\ gradeResult = <<>>
    /\ reordered = <<>>
    /\ predicted = <<>>
    /\ review = <<>>
    /\ planned = <<>>
    /\ browser = <<>>
    /\ course = NewCourse
    /\ timetable = <<>>
    /\ attendance = <<>>
    /\ clicked = <<>>

NextDue ==
    \/ GetCardsDueToday
    \/ AdvanceDay

SpecDue == InitDeck /\ [][NextDue]_vars

\* res holds exactly the cards of cs due on `day`, in the order of cs
IsOrderedSelection(res, cs, day) ==
    LET idx == { i \in 1 .. Len(cs) : cs[i].next_review_date <= day }
    IN  /\ Len(res) = Cardinality(idx)
        /\ \A k \in 1 .. Len(res) :
              \E i \in idx : /\ res[k] = cs[i]
                             /\ Cardinality({ j \in idx : j < i }) = k - 1

\* C9: get_cards_due_today returns exactly the cards with
\* next_review_date <= today, in input order (due today: in, due tomorrow:
\* out); the stored list is left as it was, and two calls with the same
\* cards on the same day return the same list.
C9_DueSelection ==
    /\ \A n \in 1 .. Len(dueCalls) :
          /\ IsOrderedSelection(dueCalls[n].result, dueCalls[n].cards, dueCalls[n].today)
          /\ \A i \in 1 .. Len(dueCalls[n].cards) :
                LET c == dueCalls[n].cards[i]
                IN  /\ c.next_review_date = dueCalls[n].today
                          => \E k \in 1 .. Len(dueCalls[n].result) : dueCalls[n].result[k] = c
                    /\ c.next_review_date = dueCalls[n].today + 1
                          => \A k \in 1 .. Len(dueCalls[n].result) : dueCalls[n].result[k] # c
          /\ cards = dueCalls[n].cards
    /\ (Len(dueCalls) = 2 /\ dueCalls[1].today = dueCalls[2].today
                          /\ dueCalls[1].cards = dueCalls[2].cards)
          => dueCalls[1].result = dueCalls[2].result

\* two calls on one day over a list with a card due tomorrow ahead of a card
\* due today and a card overdue
C9_Witness ==
    /\ Len(dueCalls) = 2
    /\ dueCalls[1].today = dueCalls[2].today
    /\ dueCalls[1].today > 0
    /\ Len(cards) = 3
    /\ cards[1].next_review_date = dueCalls[1].today + 1
    /\ cards[2].next_review_date = dueCalls[1].today
    /\ cards[3].next_review_date < dueCalls[1].today
    /\ dueCalls[1].result = <<cards[2], cards[3]>>

(***************************************************************************)
(* calculate_current_grade(grades), in binary64; the returned value is in  *)
(* hundredths of a percent.                                                *)
(***************************************************************************)
\* line 29: (grade / max_grade) * 100; the division raises when max_grade is 0
Percentage(grade, max_grade) ==
    [value |-> IF max_grade = 0 THEN <<>>
               ELSE FloatMulInt(FloatDivInt(FloatOfInt(grade), max_grade), 100),
     error |-> max_grade = 0]

\* Slip: a skipped entry still counts with its weight.
AddGradeEntry_WeightAlways(acc, entry) ==
    IF entry.max_grade > 0
    THEN LET pct == Percentage(entry.grade, entry.max_grade)
         IN  [score  |-> FloatAdd(acc.score, FloatMulInt(pct.value, entry.weight)),
              weight |-> acc.weight + entry.weight,
              error  |-> acc.error \/ pct.error]
    ELSE [acc EXCEPT !.weight = acc.weight + entry.weight]

\* lines 24-31, one pass of the loop body over the running totals
\* total_weighted_score = score and total_weight = weight
AddGradeEntry(acc, entry) ==
    IF entry.max_grade > 0
    THEN LET pct == Percentage(entry.grade, entry.max_grade)
         IN  [score  |-> FloatAdd(acc.score, FloatMulInt(pct.value, entry.weight)),
              weight |-> acc.weight + entry.weight,
              error  |-> acc.error \/ pct.error]
    ELSE acc

RECURSIVE GradeTotals(_, _)
\* lines 20-31: the loop over the first n entries
GradeTotals(gs, n) ==
    IF n = 0 THEN [score |-> <<>>, weight |-> 0, error |-> FALSE]
    ELSE AddGradeEntry(GradeTotals(gs, n - 1), gs[n])

calculate_current_grade(gs) ==
    IF gs = <<>> THEN [value |-> 0, raised |-> "none"]
    ELSE LET t == GradeTotals(gs, Len(gs))
         IN  IF t.error THEN [value |-> 0, raised |-> "ZeroDivisionError"]
             ELSE IF t.weight = 0 THEN [value |-> 0, raised |-> "none"]
             ELSE [value  |-> FloatRound2(FloatDivInt(t.score, t.weight)),
                   raised |-> "none"]

\* The grade dictionaries of a course are handed to calculate_current_grade.
CalculateCurrentGrade ==
    /\ gradeResult' = <<calculate_current_grade(grades)>>
    /\ UNCHANGED <<today, grades, reordered, sm2Vars, dueVars, predictVars, attendanceVars, pageVars>>

GradeEntries ==
    [grade : 0 .. MaxScore, max_grade : -1 .. MaxScore, weight : 0 .. MaxWeight]

InitGrades ==
    /\ \E n \in 0 .. MaxGrades : grades \in [1 .. n -> GradeEntries]
    /\ gradeResult = <<>>
    /\ reordered = <<>>
    /\ predicted = <<>>
    /\ review = <<>>
    /\ planned = <<>>
    /\ browser = <<>>
    /\ course = NewCourse
    /\ timetable = <<>>
    /\ attendance = <<>>
    /\ clicked = <<>>
    /\ today = 0
    /\ card = NewFlashcard(today)
    /\ args = <<>>
    /\ raised = "none"
    /\ reviews = 0
    /\ fives = 0
    /\ cards = <<>>
    /\ dueCalls = <<>>

NextGrade == CalculateCurrentGrade

SpecGrade == InitGrades /\ [][NextGrade]_vars

\* the entries that count: max_grade > 0
ValidEntries(gs) == { i \in 1 .. Len(gs) : gs[i].max_grade > 0 }

RECURSIVE SumOver(_, _), ProductOver(_, _)
SumOver(S, f) ==
    IF S = {} THEN 0
    ELSE LET i == CHOOSE x \in S : TRUE IN f[i] + SumOver(S \ {i}, f)
ProductOver(S, f) ==
    IF S = {} THEN 1
    ELSE LET i == CHOOSE x \in S : TRUE IN f[i] * ProductOver(S \ {i}, f)

\* weighted sum of the percentages of the valid entries, over the common
\* denominator CommonDen(gs)
CommonDen(gs) == ProductOver(ValidEntries(gs), [i \in 1 .. Len(gs) |-> gs[i].max_grade])
WeightedNum(gs) ==
    SumOver(ValidEntries(gs),
            [i \in 1 .. Len(gs) |->
                gs[i].grade * 100 * gs[i].weight * (CommonDen(gs) \div gs[i].max_grade)])
ValidWeight(gs) == SumOver(ValidEntries(gs), [i \in 1 .. Len(gs) |-> gs[i].weight])

\* v (hundredths) is num/den rounded to two decimals: within half a hundredth
IsRoundedTo2(v, num, den) == 2 * Abs(v * den - num * 100) <= den

\* C10: calculate_current_grade is the weight-weighted mean of
\* grade/max_grade*100 over exactly the entries with max_grade > 0, rounded
\* to 2 decimals; it is 0 for an empty list, for no valid entry and for a
\* zero total weight of the valid entries, and it never divides by zero.
C10_CurrentGrade ==
    gradeResult # <<>> =>
        /\ gradeResult[1].raised = "none"
        /\ IF ValidEntries(grades) = {} \/ ValidWeight(grades) = 0
           THEN gradeResult[1].value = 0
           ELSE IsRoundedTo2(gradeResult[1].value, WeightedNum(grades),
                             CommonDen(grades) * ValidWeight(grades))

\* a weighted entry with max_grade 0 ahead of a valid one: the mean is that
\* of the valid entry alone
C10_Witness ==
    /\ gradeResult # <<>>
    /\ Len(grades) = 2
    /\ grades[1].max_grade = 0 /\ grades[1].weight = 2 /\ grades[1].grade = 0
    /\ grades[2].max_grade = 1 /\ grades[2].weight = 1 /\ grades[2].grade = 1
    /\ gradeResult[1].value = 10000

(***************************************************************************)
(* The same grades of a course read in another order: the dashboard reads  *)
(* them unordered, the grade tab ordered by exam_date descending.          *)
(***************************************************************************)
CalculateReordered ==
    /\ \E p \in Permutations(1 .. Len(grades)) :
          LET order == [i \in 1 .. Len(grades) |-> grades[p[i]]]
          IN  reordered' = <<[order  |-> order,
                              value  |-> calculate_current_grade(order).value,
                              raised |-> calculate_current_grade(order).raised]>>
    /\ UNCHANGED <<today, grades, gradeResult, sm2Vars, dueVars, predictVars, attendanceVars, pageVars>>

\* One point scored out of 3, 6 or 8 with weight 2 or 3.  Three entries are
\* the fewest whose float sum can depend on the order of the additions.
OrderedEntries == [grade : {1}, max_grade : {3, 6, 8}, weight : {2, 3}]

InitOrder ==
    /\ \E n \in 0 .. (MaxGrades + 1) : grades \in [1 .. n -> OrderedEntries]
    /\ gradeResult = <<>>
    /\ reordered = <<>>
    /\ predicted = <<>>
    /\ review = <<>>
    /\ planned = <<>>
    /\ browser = <<>>
    /\ course = NewCourse
    /\ timetable = <<>>
    /\ attendance = <<>>
    /\ clicked = <<>>
    /\ today = 0
    /\ card = NewFlashcard(today)
    /\ args = <<>>
    /\ raised = "none"
    /\ reviews = 0
    /\ fives = 0
    /\ cards = <<>>
    /\ dueCalls = <<>>

NextOrder ==
    \/ CalculateCurrentGrade
    \/ CalculateReordered

SpecGradeOrder == InitOrder /\ [][NextOrder]_vars

\* C11: calculate_current_grade returns the same value for a list of
\* grade entries and for every permutation of it, and 0.0 for the empty list.
C11_ReorderInvariant ==
    /\ (gradeResult # <<>> /\ reordered # <<>>)
          => reordered[1].value = gradeResult[1].value
    /\ (gradeResult # <<>> /\ grades = <<>>) => gradeResult[1].value = 0

(***************************************************************************)
(* predict_grade_needed(current_grade, target_grade, completed_weight,     *)
(* remaining_weight), in binary64.  The grades are whole percents and the  *)
(* weights are counted in quarters (2 is 0.5), so that the product and the *)
(* difference of line 62 are exact and its quotient is the one rounding.   *)
(* The returned value is in hundredths of a percent.                       *)
(***************************************************************************)
QuartersPerUnit == 4

\* Slip: the weights are first scaled to sum to 1.
NeededGrade_Normalised(current_grade, target_grade, completed_weight, remaining_weight) ==
    LET total == completed_weight + remaining_weight
        num == total * target_grade - current_grade * completed_weight
    IN  [negative  |-> num # 0 /\ ((num < 0) # (remaining_weight < 0)),
         magnitude |-> FloatDivInt(FloatOfInt(Abs(num)), Abs(remaining_weight))]

\* line 62, as sign and magnitude
NeededGrade(current_grade, target_grade, completed_weight, remaining_weight) ==
    LET num == QuartersPerUnit * target_grade - current_grade * completed_weight
    IN  [negative  |-> num # 0 /\ ((num < 0) # (remaining_weight < 0)),
         magnitude |-> FloatDivInt(FloatOfInt(Abs(num)), Abs(remaining_weight))]

\* line 65: max(0.0, min(100.0, needed))
ClampNeeded(needed) ==
    IF needed.negative THEN <<>>
    ELSE IF IntOfLimbs(needed.magnitude, FracLimbs + 1) >= 100 THEN FloatOfInt(100)
    ELSE needed.magnitude

\* Slip: with nothing remaining, the target is handed back.
predict_grade_needed_ReturnsTarget(current_grade, target_grade, completed_weight, remaining_weight) ==
    IF remaining_weight = 0 THEN 100 * target_grade
    ELSE FloatRound2(ClampNeeded(NeededGrade(current_grade, target_grade,
                                             completed_weight, remaining_weight)))

\* lines 57-67
predict_grade_needed(current_grade, target_grade, completed_weight, remaining_weight) ==
    IF remaining_weight = 0 THEN 100 * current_grade
    ELSE FloatRound2(ClampNeeded(NeededGrade(current_grade, target_grade,
                                             completed_weight, remaining_weight)))

\* current grades (calculate_current_grade exceeds 100 when a score exceeds
\* its maximum) and targets, in percent
GradePercents == {0, 50, 80, 90, 100, 120}
WeightQuarters == -1 .. MaxQuarters

PredictGradeNeeded ==
    /\ \E current \in GradePercents, target \in GradePercents,
          completed \in 0 .. MaxQuarters, remaining \in WeightQuarters :
          predicted' = <<[current_grade    |-> current,
                          target_grade     |-> target,
                          completed_weight |-> completed,
                          remaining_weight |-> remaining,
                          value |-> predict_grade_needed(current, target,
                                                         completed, remaining)]>>
    /\ UNCHANGED <<today, sm2Vars, dueVars, gradeVars, attendanceVars, pageVars>>

NextPredict == PredictGradeNeeded

SpecPredict == Init /\ [][NextPredict]_vars

\* the exact solution of target = current * completed + needed * remaining,
\* as the fraction SolutionNum / SolutionDen with SolutionDen > 0
SolutionNum(p) ==
    (QuartersPerUnit * p.target_grade - p.current_grade * p.completed_weight)
        * (IF p.remaining_weight < 0 THEN -1 ELSE 1)
SolutionDen(p) == Abs(p.remaining_weight)

\* C12: for remaining_weight # 0, predict_grade_needed is
\* (target - current * completed_weight) / remaining_weight, clamped to
\* [0, 100] and rounded to 2 decimals, with the weights taken as given
\* (no normalisation); (80, 90, 0.5, 0.5) gives 100.0.
C12_NeededGrade ==
    (predicted # <<>> /\ predicted[1].remaining_weight # 0) =>
        LET p == predicted[1]
        IN  /\ IF SolutionNum(p) <= 0 THEN p.value = 0
               ELSE IF SolutionNum(p) >= 100 * SolutionDen(p) THEN p.value = 10000
               ELSE IsRoundedTo2(p.value, SolutionNum(p), SolutionDen(p))
            /\ (p.current_grade = 80 /\ p.target_grade = 90
                   /\ p.completed_weight = 2 /\ p.remaining_weight = 2)
                  => p.value = 10000

\* weights 0.75 and 0.75, not summing to 1, with an unclamped result:
\* (90 - 50 * 0.75) / 0.75 = 70
C12_Witness ==
    /\ predicted # <<>>
    /\ predicted[1].current_grade = 50 /\ predicted[1].target_grade = 90
    /\ predicted[1].completed_weight = 3 /\ predicted[1].remaining_weight = 3
    /\ predicted[1].value = 7000

\* C13: with remaining_weight = 0, predict_grade_needed returns the current
\* grade unchanged and raises nothing.
C13_NothingRemaining ==
    (predicted # <<>> /\ predicted[1].remaining_weight = 0) =>
        predicted[1].value = 100 * predicted[1].current_grade

C13_Witness ==
    /\ predicted # <<>>
    /\ predicted[1].remaining_weight = 0
    /\ predicted[1].current_grade = 80 /\ predicted[1].target_grade = 90
    /\ predicted[1].value = 8000

\* C14: the value returned by predict_grade_needed lies in [0, 100] for every
\* input, including remaining_weight = 0 with a current grade above 100.
C14_AlwaysClamped ==
    predicted # <<>> => (0 <= predicted[1].value /\ predicted[1].value <= 10000)

(***************************************************************************)
(* The attendance tab of render_attendance.  Dates are day numbers, day 0  *)
(* a Monday; times of day are minutes after midnight; hours are binary64.  *)
(* The threshold is the float of the column; computed percentages are     *)
(* kept in hundredths of a percent.                                        *)
(***************************************************************************)
\* `value or default`
OrElse(value, default) == IF value = Null \/ value = 0 THEN default ELSE value

\* `value or default` for a float: 0.0 is falsy
FloatOrElse(value, default) == IF value = <<>> THEN default ELSE value

\* date.weekday(): 0 is Monday
Weekday(d) == d % 7

\* Slip: the end date is left out of the scan.
count_weekday_occurrences_EndExclusive(start_d, end_d, weekday) ==
    IF start_d = NoDate \/ end_d = NoDate THEN 0
    ELSE Cardinality({ d \in start_d .. (end_d - 1) : Weekday(d) = weekday })

\* lines 64-74
count_weekday_occurrences(start_d, end_d, weekday) ==
    IF start_d = NoDate \/ end_d = NoDate THEN 0
    ELSE Cardinality({ d \in start_d .. end_d : Weekday(d) = weekday })

\* course_helpers.py: the Monday-to-Friday dates of the course
calculate_total_classes_for_course(c) ==
    IF c.start_date = NoDate \/ c.end_date = NoDate THEN 0
    ELSE Cardinality({ d \in c.start_date .. c.end_date : Weekday(d) < 5 })

\* lines 80-82: (end_dt - start_dt).total_seconds() / 3600.0, for end after start
DurationHours(entry) ==
    FloatDivInt(FloatOfInt(60 * (entry.end_time - entry.start_time)), 3600)

\* Slip: an entry without a positive duration still counts its dates.
AddTimetableEntry_CountsInvalid(acc, entry, c) ==
    IF entry.end_time <= entry.start_time
    THEN [hours       |-> acc.hours,
          occurrences |-> acc.occurrences
                          + count_weekday_occurrences(c.start_date, c.end_date,
                                                      entry.day_of_week)]
    ELSE [hours |-> FloatAdd(acc.hours,
                             FloatMulInt(DurationHours(entry),
                                 count_weekday_occurrences(c.start_date, c.end_date,
                                                           entry.day_of_week))),
          occurrences |-> acc.occurrences
                          + count_weekday_occurrences(c.start_date, c.end_date,
                                                      entry.day_of_week)]

\* lines 77-91, one pass of the loop body
AddTimetableEntry(acc, entry, c) ==
    IF entry.end_time <= entry.start_time THEN acc
    ELSE [hours |-> FloatAdd(acc.hours,
                             FloatMulInt(DurationHours(entry),
                                 count_weekday_occurrences(c.start_date, c.end_date,
                                                           entry.day_of_week))),
          occurrences |-> acc.occurrences
                          + count_weekday_occurrences(c.start_date, c.end_date,
                                                      entry.day_of_week)]

RECURSIVE TimetableTotals(_, _, _)
TimetableTotals(entries, n, c) ==
    IF n = 0 THEN [hours |-> <<>>, occurrences |-> 0]
    ELSE AddTimetableEntry(TimetableTotals(entries, n - 1, c), entries[n], c)

\* Slip: a timetable that yields no occurrence also falls back.
ExpectedTotals_FallbackWhenZero(c, entries) ==
    IF entries # <<>> /\ c.start_date # NoDate /\ c.end_date # NoDate
       /\ TimetableTotals(entries, Len(entries), c).occurrences > 0
    THEN TimetableTotals(entries, Len(entries), c)
    ELSE [hours       |-> FloatOfInt(calculate_total_classes_for_course(c)),
          occurrences |-> calculate_total_classes_for_course(c)]

\* lines 76-98: total_expected_hours and total_expected_occurrences
ExpectedTotals(c, entries) ==
    IF entries # <<>> /\ c.start_date # NoDate /\ c.end_date # NoDate
    THEN TimetableTotals(entries, Len(entries), c)
    ELSE [hours       |-> FloatOfInt(calculate_total_classes_for_course(c)),
          occurrences |-> calculate_total_classes_for_course(c)]

\* helpers.py: round((part / total) * 100, 2), 0.0 for total 0
calculate_percentage(part, total) ==
    IF total = <<>> THEN 0
    ELSE FloatRound2(FloatMulInt(FloatDiv(part, total), 100))

\* the float that round(x, 2) returned, from its hundredths
PercentFloat(hundredths) == FloatDivInt(FloatOfInt(hundredths), 100)

\* lines 101-105
SkippedHours(total_expected_hours, total_expected_occurrences, skipped_classes) ==
    IF total_expected_occurrences > 0
    THEN FloatMulInt(FloatDivInt(total_expected_hours, total_expected_occurrences),
                     skipped_classes)
    ELSE <<>>

\* Slip: the difference is taken without its sign instead of being floored.
AttendedHours_Unsigned(total_expected_hours, skipped_hours) ==
    IF FloatLess(total_expected_hours, skipped_hours)
    THEN FloatSub(skipped_hours, total_expected_hours)
    ELSE FloatSub(total_expected_hours, skipped_hours)

\* line 107: max(total_expected_hours - skipped_hours, 0.0)
AttendedHours(total_expected_hours, skipped_hours) ==
    IF FloatLess(total_expected_hours, skipped_hours) THEN <<>>
    ELSE FloatSub(total_expected_hours, skipped_hours)

\* line 110
AttendancePercentage(attended_hours, total_expected_hours) ==
    IF total_expected_hours # <<>>
    THEN calculate_percentage(attended_hours, total_expected_hours)
    ELSE 0

\* lines 149-151
MaxSkips(threshold, total_expected_occurrences) ==
    Max(0, total_expected_occurrences
           - FloatTrunc(FloatMulInt(FloatDivInt(threshold, 100),
                                    total_expected_occurrences)))

\* lines 170-177, for attendance_percentage < threshold
ClassesNeeded(attendance_percentage, threshold, total_expected_hours, total_expected_occurrences) ==
    IF total_expected_hours # <<>> /\ total_expected_occurrences > 0
    THEN FloatTrunc(FloatAdd(
             FloatDiv(FloatMul(FloatDivInt(FloatSub(threshold,
                                                    PercentFloat(attendance_percentage)),
                                           100),
                               total_expected_hours),
                      FloatDivInt(total_expected_hours, total_expected_occurrences)),
             FloatDivInt(FloatOfInt(999), 1000)))
    ELSE IF total_expected_occurrences > 0
         THEN FloatTrunc(FloatMulInt(
                  FloatDivInt(FloatSub(threshold,
                                       PercentFloat(attendance_percentage)), 100),
                  total_expected_occurrences))
         ELSE 0

\* Slip: the margin is rounded up the way line 174 rounds classes_needed.
MaxAdditionalSkips_RoundedUp(attendance_percentage, threshold, total_expected_occurrences) ==
    IF total_expected_occurrences > 0
    THEN FloatTrunc(FloatAdd(
             FloatMulInt(FloatDivInt(FloatSub(PercentFloat(attendance_percentage),
                                              threshold), 100),
                         total_expected_occurrences),
             FloatDivInt(FloatOfInt(999), 1000)))
    ELSE 0

\* lines 181-185, for attendance_percentage >= threshold
MaxAdditionalSkips(attendance_percentage, threshold, total_expected_occurrences) ==
    IF total_expected_occurrences > 0
    THEN FloatTrunc(FloatMulInt(
             FloatDivInt(FloatSub(PercentFloat(attendance_percentage),
                                  threshold), 100),
             total_expected_occurrences))
    ELSE 0

\* lines 149-186: what the page shows next to the percentage
AttendancePanel(skipped_classes, threshold, totals, skipped_hours, attended_hours, attendance_percentage) ==
    [skipped_classes            |-> skipped_classes,
     threshold                  |-> threshold,
     total_expected_hours       |-> totals.hours,
     total_expected_occurrences |-> totals.occurrences,
     skipped_hours              |-> skipped_hours,
     attended_hours             |-> attended_hours,
     attendance_percentage      |-> attendance_percentage,
     max_skips |-> IF totals.occurrences > 0
                   THEN MaxSkips(threshold, totals.occurrences) ELSE Null,
     below_threshold |->
         FloatLess(PercentFloat(attendance_percentage), threshold),
     classes_needed |->
         IF FloatLess(PercentFloat(attendance_percentage), threshold)
         THEN ClassesNeeded(attendance_percentage, threshold,
                            totals.hours, totals.occurrences)
         ELSE Null,
     max_additional_skips |->
         IF FloatLess(PercentFloat(attendance_percentage), threshold)
         THEN Null
         ELSE MaxAdditionalSkips(attendance_percentage, threshold, totals.occurrences)]

\* lines 100-110
AttendanceHours(skipped_classes, threshold, totals, skipped_hours, attended_hours) ==
    AttendancePanel(skipped_classes, threshold, totals, skipped_hours, attended_hours,
                    AttendancePercentage(attended_hours, totals.hours))

AttendanceTotals(skipped_classes, threshold, totals, skipped_hours) ==
    AttendanceHours(skipped_classes, threshold, totals, skipped_hours,
                    AttendedHours(totals.hours, skipped_hours))

AttendanceOf(skipped_classes, threshold, totals) ==
    AttendanceTotals(skipped_classes, threshold, totals,
                     SkippedHours(totals.hours, totals.occurrences, skipped_classes))

\* lines 50-186: one run of the page for the selected course
AttendanceView(c, entries) ==
    AttendanceOf(OrElse(c.skipped_classes, 0),
                 FloatOrElse(c.attendance_threshold, FloatOfInt(DEFAULT_THRESHOLD)),
                 ExpectedTotals(c, entries))

\* The attendance tab is opened (or rerun) for the selected course.
RenderAttendance ==
    /\ attendance' = <<AttendanceView(course, timetable)>>
    /\ UNCHANGED <<today, course, timetable, clicked, sm2Vars, dueVars, gradeVars, predictVars, pageVars>>

\* lines 155-159: the Add Skip button; st.rerun() runs the page again
AddSkip ==
    /\ attendance # <<>>
    /\ OrElse(course.skipped_classes, 0) < MaxSkipped
    /\ course' = [course EXCEPT !.skipped_classes = OrElse(@, 0) + 1]
    /\ clicked' = <<[button |-> "add_skip", stored |-> course.skipped_classes]>>
    /\ attendance' = <<AttendanceView(course', timetable)>>
    /\ UNCHANGED <<today, timetable, sm2Vars, dueVars, gradeVars, predictVars, pageVars>>

\* Slip: the counter is lowered without looking at its value.
RemoveSkip_Unguarded ==
    /\ attendance # <<>>
    /\ course' = [course EXCEPT !.skipped_classes = OrElse(@, 0) - 1]
    /\ clicked' = <<[button |-> "remove_skip", stored |-> course.skipped_classes]>>
    /\ attendance' = <<AttendanceView(course', timetable)>>
    /\ UNCHANGED <<today, timetable, sm2Vars, dueVars, gradeVars, predictVars, pageVars>>

\* lines 162-167: the Remove Skip button
RemoveSkip ==
    /\ attendance # <<>>
    /\ course' = IF course.skipped_classes # Null /\ course.skipped_classes > 0
                  THEN [course EXCEPT !.skipped_classes = @ - 1]
                  ELSE course
    /\ clicked' = <<[button |-> "remove_skip", stored |-> course.skipped_classes]>>
    /\ attendance' = <<AttendanceView(course', timetable)>>
    /\ UNCHANGED <<today, timetable, sm2Vars, dueVars, gradeVars, predictVars, pageVars>>

\* a Monday class of 50 minutes, a Wednesday class of 90 minutes and a
\* Friday entry that ends before it starts
TimetableEntries ==
    { [day_of_week |-> 0, start_time |-> 540, end_time |-> 590],
      [day_of_week |-> 2, start_time |-> 540, end_time |-> 630],
      [day_of_week |-> 4, start_time |-> 600, end_time |-> 540] }

\* the course starts on day 0 and ends on a Friday, or has no end date
CourseEnds == {NoDate} \cup { 7 * w - 3 : w \in 1 .. MaxWeeks }

\* values of the threshold slider, stored as floats
Thresholds == { FloatOfInt(t) : t \in {0, 50, 75, 100} }

InitAttendance ==
    /\ course \in [start_date           : {0},
                    end_date             : CourseEnds,
                    skipped_classes      : {Null, 0},
                    attendance_threshold : Thresholds]
    /\ \E n \in 0 .. MaxEntries : timetable \in [1 .. n -> TimetableEntries]
    /\ attendance = <<>>
    /\ clicked = <<>>
    /\ today = 0
    /\ card = NewFlashcard(today)
    /\ args = <<>>
    /\ raised = "none"
    /\ reviews = 0
    /\ fives = 0
    /\ cards = <<>>
    /\ dueCalls = <<>>
    /\ grades = <<>>
    /\ gradeResult = <<>>
    /\ reordered = <<>>
    /\ predicted = <<>>
    /\ review = <<>>
    /\ planned = <<>>
    /\ browser = <<>>

NextAttendance ==
    \/ RenderAttendance
    \/ AddSkip
    \/ RemoveSkip

SpecAttendance == InitAttendance /\ [][NextAttendance]_vars

\* the page has been computed for a course with expected occurrences
Projected == attendance # <<>> /\ attendance[1].total_expected_occurrences > 0

\* the threshold stored for the course, in hundredths of a percent
StoredThreshold == FloatRound2(course.attendance_threshold)

\* the threshold the page works with and shows, in hundredths
ShownThreshold == FloatRound2(attendance[1].threshold)

\* C15: for every total_expected_occurrences > 0 and every threshold in
\* [0, 100], 0 included, 'Maximum safe skips' is
\* floor(total_expected_occurrences * (1 - threshold / 100)), at least 0;
\* 5 occurrences at threshold 75 give 1.
C15_MaxSafeSkips ==
    Projected =>
        /\ attendance[1].max_skips
              = Max(0, (attendance[1].total_expected_occurrences
                        * (10000 - StoredThreshold)) \div 10000)
        /\ (attendance[1].total_expected_occurrences = 5 /\ StoredThreshold = 7500)
              => attendance[1].max_skips = 1

\* every class of the course lasts the same time
UniformDuration ==
    \A i, j \in 1 .. Len(timetable) :
        (timetable[i].end_time > timetable[i].start_time
            /\ timetable[j].end_time > timetable[j].start_time)
        => timetable[i].end_time - timetable[i].start_time
              = timetable[j].end_time - timetable[j].start_time

\* C16: with classes of one duration, a course whose skipped classes equal
\* the reported maximum safe skips has an attendance percentage at or above
\* the threshold.
C16_MaxSkipsSafe ==
    (Projected /\ UniformDuration
        /\ attendance[1].skipped_classes = attendance[1].max_skips)
        => attendance[1].attendance_percentage >= ShownThreshold

\* ceiling of num / den for den > 0
CeilDiv(num, den) == (num + den - 1) \div den

\* C17: at or above the threshold no number of classes needed is computed;
\* below it, classes needed is the exact ceiling of
\* (threshold - attendance_percentage) / 100 * total_expected_occurrences,
\* whatever the hours per class.
C17_ClassesNeeded ==
    attendance # <<>> =>
        IF attendance[1].attendance_percentage >= ShownThreshold
        THEN attendance[1].classes_needed = Null
        ELSE attendance[1].classes_needed
                = CeilDiv((ShownThreshold - attendance[1].attendance_percentage)
                              * attendance[1].total_expected_occurrences, 10000)

RECURSIVE TimetableMinutes(_)
TimetableMinutes(n) ==
    IF n = 0 THEN 0
    ELSE TimetableMinutes(n - 1)
         + Max(0, timetable[n].end_time - timetable[n].start_time)
           * Cardinality({ d \in course.start_date .. course.end_date :
                             d % 7 = timetable[n].day_of_week })

ExpectedMinutes ==
    IF timetable = <<>> \/ course.end_date = NoDate THEN 60 * attendance[1].total_expected_occurrences
    ELSE TimetableMinutes(Len(timetable))

\* C19: skipped_hours is skipped_classes times the average class duration,
\* attended_hours is max(0, total_expected_hours - skipped_hours) and the
\* attendance percentage is attended_hours / total_expected_hours * 100 (each
\* checked to the hundredth); all are 0, without an error, for a course
\* with no expected occurrences; the percentage lies in [0, 100] for every
\* skip count, also beyond total_expected_occurrences.
C19_AttendanceHours ==
    attendance # <<>> =>
        LET a == attendance[1]
            N == a.total_expected_occurrences
        IN  /\ 0 <= a.attendance_percentage /\ a.attendance_percentage <= 10000
            /\ IF N = 0
               THEN /\ a.total_expected_hours = <<>>
                    /\ a.skipped_hours = <<>>
                    /\ a.attended_hours = <<>>
                    /\ a.attendance_percentage = 0
               ELSE /\ IsRoundedTo2(FloatRound2(a.skipped_hours),
                                    a.skipped_classes * ExpectedMinutes, 60 * N)
                    /\ IsRoundedTo2(FloatRound2(a.attended_hours),
                                    Max(0, N - a.skipped_classes) * ExpectedMinutes,
                                    60 * N)
                    /\ IsRoundedTo2(a.attendance_percentage,
                                    100 * Max(0, N - a.skipped_classes), N)

\* a Monday and a Wednesday class over one week, with more skips than classes
C19_Witness ==
    /\ attendance # <<>>
    /\ Len(timetable) = 2
    /\ timetable[1].day_of_week # timetable[2].day_of_week
    /\ attendance[1].total_expected_occurrences = 2
    /\ attendance[1].skipped_classes = 3
    /\ attendance[1].attended_hours = <<>>
    /\ attendance[1].attendance_percentage = 0

(***************************************************************************)
(* A course of six to seven weeks with one class of 50 or 60 minutes on    *)
(* each day from Monday to Friday, and any number of them skipped.         *)
(***************************************************************************)
WeekdayClasses(minutes) ==
    [i \in 1 .. 5 |-> [day_of_week |-> i - 1,
                       start_time  |-> 540,
                       end_time    |-> 540 + minutes]]

LongCourseEnds == {39, 43, 46}

InitLongCourse ==
    /\ course \in [start_date           : {0},
                    end_date             : LongCourseEnds,
                    skipped_classes      : 0 .. MaxLongSkipped,
                    attendance_threshold : {FloatOfInt(DEFAULT_THRESHOLD)}]
    /\ timetable \in {WeekdayClasses(50), WeekdayClasses(60)}
    /\ attendance = <<>>
    /\ clicked = <<>>
    /\ today = 0
    /\ card = NewFlashcard(today)
    /\ args = <<>>
    /\ raised = "none"
    /\ reviews = 0
    /\ fives = 0
    /\ cards = <<>>
    /\ dueCalls = <<>>
    /\ grades = <<>>
    /\ gradeResult = <<>>
    /\ reordered = <<>>
    /\ predicted = <<>>
    /\ review = <<>>
    /\ planned = <<>>
    /\ browser = <<>>

NextLongCourse ==
    \/ RenderAttendance
    \/ RemoveSkip

SpecLongCourse == InitLongCourse /\ [][NextLongCourse]_vars

\* what the page shows for a course without timetable that expects as many
\* one-hour classes and has as many skipped
FallbackPercentage ==
    AttendanceOf(attendance[1].skipped_classes, attendance[1].threshold,
                 [hours       |-> FloatOfInt(attendance[1].total_expected_occurrences),
                  occurrences |-> attendance[1].total_expected_occurrences]
                ).attendance_percentage

\* C20: for every timetable of classes of positive durations, the
\* attendance percentage computed from hours equals the one computed from
\* occurrences, max(0, occurrences - skipped) / occurrences * 100, which the
\* fallback without timetable shows for the same count; 10 expected
\* occurrences with 3 skipped give 70.0.
C20_HoursMatchOccurrences ==
    Projected =>
        /\ attendance[1].attendance_percentage = FallbackPercentage
        /\ (attendance[1].total_expected_occurrences = 10
               /\ attendance[1].skipped_classes = 3)
              => attendance[1].attendance_percentage = 7000

(***************************************************************************)
(* Courses whose term starts and ends on any day of the week, ends before  *)
(* it starts, or has a date missing, with timetables that also hold a      *)
(* weekend class and entries without a positive duration.                  *)
(***************************************************************************)
\* a Sunday class of 60 minutes and a Saturday entry of no duration
TermEntries ==
    TimetableEntries
        \cup { [day_of_week |-> 6, start_time |-> 600, end_time |-> 660],
               [day_of_week |-> 5, start_time |-> 600, end_time |-> 600] }

\* a Monday, a Wednesday and a Saturday, or no start date
TermStarts == {NoDate, 0, 2, 5}

TermEnds == {NoDate} \cup (0 .. MaxTermDay)

InitTerm ==
    /\ course \in [start_date           : TermStarts,
                    end_date             : TermEnds,
                    skipped_classes      : {0},
                    attendance_threshold : {FloatOfInt(DEFAULT_THRESHOLD)}]
    /\ \E n \in 0 .. MaxEntries : timetable \in [1 .. n -> TermEntries]
    /\ attendance = <<>>
    /\ clicked = <<>>
    /\ today = 0
    /\ card = NewFlashcard(today)
    /\ args = <<>>
    /\ raised = "none"
    /\ reviews = 0
    /\ fives = 0
    /\ cards = <<>>
    /\ dueCalls = <<>>
    /\ grades = <<>>
    /\ gradeResult = <<>>
    /\ reordered = <<>>
    /\ predicted = <<>>
    /\ review = <<>>
    /\ planned = <<>>
    /\ browser = <<>>

NextTerm == RenderAttendance

SpecTerm == InitTerm /\ [][NextTerm]_vars

\* the dates d with s <= d <= e and weekday w, counted by whole weeks
WeekdayCount(s, e, w) ==
    IF e < s THEN 0 ELSE ((e - w) \div 7) - ((s - 1 - w) \div 7)

HasTerm == course.start_date # NoDate /\ course.end_date # NoDate

IsValidEntry(entry) == entry.end_time > entry.start_time

\* occurrences and minutes of the valid entries among the first n
RECURSIVE ValidOccurrences(_)
ValidOccurrences(n) ==
    IF n = 0 THEN 0
    ELSE ValidOccurrences(n - 1)
         + (IF IsValidEntry(timetable[n])
            THEN WeekdayCount(course.start_date, course.end_date,
                              timetable[n].day_of_week)
            ELSE 0)

RECURSIVE ValidMinutes(_)
ValidMinutes(n) ==
    IF n = 0 THEN 0
    ELSE ValidMinutes(n - 1)
         + (IF IsValidEntry(timetable[n])
            THEN (timetable[n].end_time - timetable[n].start_time)
                 * WeekdayCount(course.start_date, course.end_date,
                                timetable[n].day_of_week)
            ELSE 0)

\* C21: with timetable entries and both course dates,
\* total_expected_occurrences is the sum over the valid entries of the
\* dates in [start_date, end_date] on the entry's weekday, exact for ranges
\* that start or end mid-week and 0 for an end before the start, and
\* total_expected_hours is the sum of count times duration (checked to the
\* hundredth of an hour).
C21_TimetableOccurrences ==
    (attendance # <<>> /\ timetable # <<>> /\ HasTerm) =>
        /\ attendance[1].total_expected_occurrences = ValidOccurrences(Len(timetable))
        /\ IsRoundedTo2(FloatRound2(attendance[1].total_expected_hours),
                        ValidMinutes(Len(timetable)), 60)
        /\ course.end_date < course.start_date
              => /\ attendance[1].total_expected_occurrences = 0
                 /\ attendance[1].total_expected_hours = <<>>

\* Wednesday to the Wednesday after: one Monday of 50 minutes, two
\* Wednesdays of 90 minutes
C21_Witness ==
    /\ attendance # <<>>
    /\ course.start_date = 2
    /\ course.end_date = 9
    /\ Len(timetable) = 2
    /\ timetable[1].day_of_week = 0 /\ IsValidEntry(timetable[1])
    /\ timetable[2].day_of_week = 2 /\ IsValidEntry(timetable[2])
    /\ attendance[1].total_expected_occurrences = 3
    /\ FloatRound2(attendance[1].total_expected_hours) = 383

\* the Monday-to-Friday dates of the term, 0 when a date is missing
WeekdayDates ==
    IF HasTerm
    THEN SumOver(0 .. 4, [w \in 0 .. 4 |-> WeekdayCount(course.start_date, course.end_date, w)])
    ELSE 0

\* C22: the fallback is used exactly when the course has no timetable
\* entries or a date is missing: the occurrences are then the
\* Monday-to-Friday dates in [start_date, end_date] (0 when a date is
\* missing) and the hours are numerically the same; with entries and both
\* dates the occurrences are those of the timetable.
C22_OccurrenceFallback ==
    attendance # <<>> =>
        IF timetable = <<>> \/ ~HasTerm
        THEN /\ attendance[1].total_expected_occurrences = WeekdayDates
             /\ attendance[1].total_expected_hours = FloatOfInt(WeekdayDates)
        ELSE attendance[1].total_expected_occurrences = ValidOccurrences(Len(timetable))

\* no timetable, Wednesday to the Wednesday after: six weekdays, six hours
C22_Witness ==
    /\ attendance # <<>>
    /\ timetable = <<>>
    /\ course.start_date = 2
    /\ course.end_date = 9
    /\ attendance[1].total_expected_occurrences = 6
    /\ attendance[1].total_expected_hours = FloatOfInt(6)

\* the entries of the timetable that have a positive duration
ValidTimetable == SelectSeq(timetable, IsValidEntry)

\* C23: an entry with end_time <= start_time adds nothing to the hours or
\* to the occurrences and stops nothing: the totals are those of the
\* timetable without such entries.
C23_InvalidEntryIgnored ==
    (attendance # <<>> /\ timetable # <<>> /\ HasTerm) =>
        /\ attendance[1].total_expected_hours
              = TimetableTotals(ValidTimetable, Len(ValidTimetable), course).hours
        /\ attendance[1].total_expected_occurrences
              = TimetableTotals(ValidTimetable, Len(ValidTimetable), course).occurrences
        /\ ValidTimetable = <<>> =>
              /\ attendance[1].total_expected_hours = <<>>
              /\ attendance[1].total_expected_occurrences = 0

\* a Friday entry that ends before it starts ahead of the Monday class, in
\* a term of two Fridays and two Mondays
C23_Witness ==
    /\ attendance # <<>>
    /\ course.start_date = 0
    /\ course.end_date = 13
    /\ Len(timetable) = 2
    /\ timetable[1].day_of_week = 4 /\ ~IsValidEntry(timetable[1])
    /\ timetable[2].day_of_week = 0 /\ IsValidEntry(timetable[2])
    /\ attendance[1].total_expected_occurrences = 2

(***************************************************************************)
(* The Review tab of render_flashcards.  `cards` holds the stored          *)
(* Flashcard rows in the order the query returns them; `review` is empty   *)
(* until the tab is first run and then holds the keys of                   *)
(* st.session_state with what the last run of the page displayed.  Two     *)
(* fields are history: due_at_start, the cards that were due when a pass   *)
(* began (a run that found current_card_index absent or 0), and rated,     *)
(* the cards rated since.                                                  *)
(***************************************************************************)
\* Slip: a sixth button submits quality 5.
UIQualities_WithFive == 0 .. 5

\* lines 72-87: the five rating buttons q0 .. q4
UIQualities == 0 .. 4

\* lines 149-158: a row saved with the values of initialize_card
SavedFlashcard(i, day) ==
    [id               |-> i,
     easiness_factor  |-> initialize_card(day).easiness_factor,
     interval_days    |-> initialize_card(day).interval_days,
     repetitions      |-> initialize_card(day).repetitions,
     next_review_date |-> initialize_card(day).next_review_date,
     last_reviewed    |-> NoDate]

\* lines 36-57 and 109-112: one run of the tab.  index is Null while
\* 'current_card_index' is not in the session state; card_flipped is read
\* only after line 54 has set it, so an absent key is carried as FALSE.
RenderReview(cs, day, index, flipped) ==
    IF get_cards_due_today(cs, day) = <<>>
    THEN [current_card_index |-> index,
          card_flipped       |-> flipped,
          screen             |-> "none_due",
          current_card       |-> Null]
    ELSE IF OrElse(index, 0) < Len(get_cards_due_today(cs, day))
    THEN [current_card_index |-> OrElse(index, 0),
          card_flipped       |-> flipped,
          screen             |-> IF flipped THEN "back" ELSE "front",
          current_card       |-> get_cards_due_today(cs, day)[OrElse(index, 0) + 1].id]
    ELSE [current_card_index |-> 0,
          card_flipped       |-> flipped,
          screen             |-> "all_reviewed",
          current_card       |-> Null]

\* the ids of the cards due on `day`
DueIds(cs, day) ==
    { get_cards_due_today(cs, day)[k].id : k \in 1 .. Len(get_cards_due_today(cs, day)) }

\* the run with the history of the pass it belongs to
WithPass(page, due_at_start, rated) ==
    [current_card_index |-> page.current_card_index,
     card_flipped       |-> page.card_flipped,
     screen             |-> page.screen,
     current_card       |-> page.current_card,
     due_at_start       |-> due_at_start,
     rated              |-> rated]

\* The user opens the Flashcards page, or comes back to it.
OpenReview ==
    /\ IF review = <<>> THEN TRUE ELSE review[1].screen = "none_due"
    /\ review' =
          IF review = <<>>
          THEN <<WithPass(RenderReview(cards, today, Null, FALSE),
                          DueIds(cards, today), {})>>
          ELSE IF review[1].current_card_index \in {Null, 0}
          THEN <<WithPass(RenderReview(cards, today, review[1].current_card_index,
                                       review[1].card_flipped),
                          DueIds(cards, today), {})>>
          ELSE <<WithPass(RenderReview(cards, today, review[1].current_card_index,
                                       review[1].card_flipped),
                          review[1].due_at_start, review[1].rated)>>
    /\ UNCHANGED <<today, sm2Vars, dueVars, gradeVars, predictVars, attendanceVars,
                   planned, browser>>

\* lines 62-64: Show Answer
ShowAnswer ==
    /\ review # <<>>
    /\ review[1].screen = "front"
    /\ review' = <<WithPass(RenderReview(cards, today, review[1].current_card_index, TRUE),
                            review[1].due_at_start, review[1].rated)>>
    /\ UNCHANGED <<today, sm2Vars, dueVars, gradeVars, predictVars, attendanceVars,
                   planned, browser>>

\* lines 91-102: the SM-2 result written to the card
RatedCard(c, quality, day) ==
    [id               |-> c.id,
     easiness_factor  |-> calculate_next_review(quality, c.easiness_factor,
                              c.interval_days, c.repetitions, day).easiness_factor,
     interval_days    |-> calculate_next_review(quality, c.easiness_factor,
                              c.interval_days, c.repetitions, day).interval_days,
     repetitions      |-> calculate_next_review(quality, c.easiness_factor,
                              c.interval_days, c.repetitions, day).repetitions,
     next_review_date |-> calculate_next_review(quality, c.easiness_factor,
                              c.interval_days, c.repetitions, day).next_review_date,
     last_reviewed    |-> day]

\* lines 56-57 of the run that handles the click: the card at
\* current_card_index of the due list as it is now
CurrentCardId(cs, day, index) == get_cards_due_today(cs, day)[index + 1].id

\* lines 89-108: a rating button.  The run that handles the click queries
\* the cards again; the button exists in it when the back of a card is
\* shown.
RateCard(quality) ==
    /\ review # <<>>
    /\ review[1].screen = "back"
    /\ reviews < MaxRatings
    /\ review[1].current_card_index < Len(get_cards_due_today(cards, today))
    /\ cards' = [k \in 1 .. Len(cards) |->
                    IF cards[k].id = CurrentCardId(cards, today, review[1].current_card_index)
                    THEN RatedCard(cards[k], quality, today)
                    ELSE cards[k]]
    /\ review' = <<WithPass(RenderReview(cards', today,
                                         review[1].current_card_index + 1, FALSE),
                            review[1].due_at_start,
                            review[1].rated
                                \cup {CurrentCardId(cards, today,
                                                    review[1].current_card_index)})>>
    /\ reviews' = reviews + 1
    /\ UNCHANGED <<today, card, args, raised, fives, dueCalls, gradeVars, predictVars,
                   attendanceVars, planned, browser>>

\* lines 113-114: Review Again
ReviewAgain ==
    /\ review # <<>>
    /\ review[1].screen = "all_reviewed"
    /\ review' = <<WithPass(RenderReview(cards, today, review[1].current_card_index,
                                         review[1].card_flipped),
                            DueIds(cards, today), {})>>
    /\ UNCHANGED <<today, sm2Vars, dueVars, gradeVars, predictVars, attendanceVars,
                   planned, browser>>

\* up to MaxCards cards saved today, none reviewed yet
InitReview ==
    /\ today = 0
    /\ \E n \in 0 .. MaxCards : cards = [i \in 1 .. n |-> SavedFlashcard(i, today)]
    /\ review = <<>>
    /\ reviews = 0
    /\ card = NewFlashcard(today)
    /\ args = <<>>
    /\ raised = "none"
    /\ fives = 0
    /\ dueCalls = <<>>
    /\ grades = <<>>
    /\ gradeResult = <<>>
    /\ reordered = <<>>
    /\ predicted = <<>>
    /\ course = NewCourse
    /\ timetable = <<>>
    /\ attendance = <<>>
    /\ clicked = <<>>
    /\ planned = <<>>
    /\ browser = <<>>

NextReview ==
    \/ OpenReview
    \/ ShowAnswer
    \/ \E quality \in UIQualities : RateCard(quality)
    \/ ReviewAgain
    \/ AdvanceDay

SpecReview == InitReview /\ [][NextReview]_vars

\* C24: when a pass starts with current_card_index = 0 and N >= 1 cards
\* due and the user rates every card presented, every card that was due at
\* the start has been presented and rated when 'All cards reviewed for
\* today!' is shown.
C24_ReviewCoverage ==
    (review # <<>> /\ review[1].screen = "all_reviewed")
        => review[1].due_at_start \subseteq review[1].rated

\* C29: the review page submits only the qualities 0..4, so the easiness
\* factor of a card saved with initialize_card and rated only on the page
\* never exceeds 2.5 and never grows from one review to the next.
C29_UIEasinessNeverGrows ==
    /\ [](\A k \in 1 .. Len(cards) : cards[k].easiness_factor <= SM2_DEFAULT_EASINESS)
    /\ [][\A k \in 1 .. Len(cards) :
            cards'[k].easiness_factor <= cards[k].easiness_factor]_vars

\* a card rated with the best button on two days still has easiness 2.5,
\* and another card has lost easiness
C29_Witness ==
    /\ review # <<>>
    /\ \E k, j \in 1 .. Len(cards) :
          /\ cards[k].repetitions = 2
          /\ cards[k].last_reviewed = 1
          /\ cards[k].easiness_factor = SM2_DEFAULT_EASINESS
          /\ cards[j].last_reviewed # NoDate
          /\ cards[j].easiness_factor < SM2_DEFAULT_EASINESS

(***************************************************************************)
(* Courses taken from a parsed syllabus: the attendance threshold is the   *)
(* number found in the document (syllabus_upload.py lines 256, 275), which *)
(* need not be a whole percent.                                            *)
(***************************************************************************)
\* the float a number written with three decimals parses to
DecimalFloat(thousandths) == FloatDivInt(FloatOfInt(thousandths), 1000)

\* a third, three quarters and five sixths, as percentages of three decimals
ImportedThresholds == { DecimalFloat(t) : t \in {33333, 75000, 83333} }

InitImported ==
    /\ course \in [start_date           : {0},
                    end_date             : CourseEnds,
                    skipped_classes      : {0},
                    attendance_threshold : ImportedThresholds]
    /\ \E n \in 0 .. MaxEntries : timetable \in [1 .. n -> TimetableEntries]
    /\ attendance = <<>>
    /\ clicked = <<>>
    /\ today = 0
    /\ card = NewFlashcard(today)
    /\ args = <<>>
    /\ raised = "none"
    /\ reviews = 0
    /\ fives = 0
    /\ cards = <<>>
    /\ dueCalls = <<>>
    /\ grades = <<>>
    /\ gradeResult = <<>>
    /\ reordered = <<>>
    /\ predicted = <<>>
    /\ review = <<>>
    /\ planned = <<>>
    /\ browser = <<>>

NextImported ==
    \/ RenderAttendance
    \/ AddSkip
    \/ RemoveSkip

SpecImported == InitImported /\ [][NextImported]_vars

\* the page of the course once n more classes are skipped
AfterSkipping(n) ==
    AttendanceView([course EXCEPT !.skipped_classes = OrElse(@, 0) + n], timetable)

\* C25: whenever the page reports an attendance percentage at or above the
\* threshold, skipping the reported safe additional skips leaves the
\* recomputed attendance percentage at or above the threshold.
C25_SafeSkipsPromise ==
    (attendance # <<>> /\ attendance[1] = AttendanceView(course, timetable)
        /\ ~attendance[1].below_threshold)
        => ~AfterSkipping(attendance[1].max_additional_skips).below_threshold

(***************************************************************************)
(* The study planner of scheduling_service.py.  A task is its id and its   *)
(* priority; a schedule entry is reduced to its date, weekday, times and   *)
(* task.  available_hours maps weekdays to a start and an end time, in     *)
(* minutes after midnight.  `planned` holds the schedule in use with the   *)
(* arguments and the input of the last recalculation.                      *)
(***************************************************************************)
\* lines 34-36: the sort key of a task
PriorityRank(priority) ==
    CASE priority = "urgent" -> 0
      [] priority = "high"   -> 1
      [] priority = "medium" -> 2
      [] OTHER               -> 3

\* lines 31-39: sorted() is stable; the tasks here have no due date
SortedTasks(tasks) ==
    LET order == CHOOSE p \in [1 .. Len(tasks) -> 1 .. Len(tasks)] :
                    /\ \A i, j \in 1 .. Len(tasks) : i # j => p[i] # p[j]
                    /\ \A i, j \in 1 .. Len(tasks) :
                          i < j => \/ PriorityRank(tasks[p[i]].priority)
                                        < PriorityRank(tasks[p[j]].priority)
                                   \/ /\ PriorityRank(tasks[p[i]].priority)
                                            = PriorityRank(tasks[p[j]].priority)
                                      /\ p[i] < p[j]
    IN  [i \in 1 .. Len(tasks) |-> tasks[order[i]]]

\* lines 63-66: the time of day at which a session starts
SessionStart(start_time, session_num, duration) ==
    (start_time + session_num * (duration + 30)) % 1440

\* lines 61-69: the sessions of a day, up to the first that would start at
\* or after the end of the available hours
SessionCount(hours, sessions_per_day, duration) ==
    Cardinality({ k \in 0 .. (sessions_per_day - 1) :
                    \A j \in 0 .. k :
                        SessionStart(hours.start_time, j, duration) < hours.end_time })

\* lines 51-90 without the tasks: the study blocks of the seven days from
\* `day`, the day at offset day_offset first
RECURSIVE StudyBlocks(_, _, _, _, _)
StudyBlocks(day_offset, day, available_hours, sessions_per_day, duration) ==
    IF day_offset = 7 THEN <<>>
    ELSE (IF Weekday(day + day_offset) \in DOMAIN available_hours
          THEN [k \in 1 .. SessionCount(available_hours[Weekday(day + day_offset)],
                                        sessions_per_day, duration) |->
                   [date        |-> day + day_offset,
                    day_of_week |-> Weekday(day + day_offset),
                    start_time  |-> SessionStart(
                                        available_hours[Weekday(day + day_offset)].start_time,
                                        k - 1, duration),
                    end_time    |-> (SessionStart(
                                        available_hours[Weekday(day + day_offset)].start_time,
                                        k - 1, duration) + duration) % 1440]]
          ELSE <<>>)
         \o StudyBlocks(day_offset + 1, day, available_hours, sessions_per_day, duration)

\* lines 74-93: the sorted tasks are given to the blocks in order
AssignTasks(blocks, sorted_tasks) ==
    [i \in 1 .. Len(blocks) |->
        [date        |-> blocks[i].date,
         day_of_week |-> blocks[i].day_of_week,
         start_time  |-> blocks[i].start_time,
         end_time    |-> blocks[i].end_time,
         task_id     |-> IF i <= Len(sorted_tasks) THEN sorted_tasks[i].id ELSE Null]]

generate_study_schedule(tasks, available_hours, sessions_per_day, duration, day) ==
    AssignTasks(StudyBlocks(0, day, available_hours, sessions_per_day, duration),
                SortedTasks(tasks))

\* lines 131-146: the day offsets, counted from today, whose weekday is
\* available and whose first slot no kept entry takes
FreeOffsets(updated_schedule, available_hours, day) ==
    { o \in 1 .. 13 :
        /\ Weekday(day + o) \in DOMAIN available_hours
        /\ \A i \in 1 .. Len(updated_schedule) :
              ~(/\ updated_schedule[i].date = day + o
                /\ updated_schedule[i].start_time
                      = available_hours[Weekday(day + o)].start_time) }

\* lines 148-153: the missed entry on its new date
Redistributed(missed_entry, available_hours, check_date) ==
    [date        |-> check_date,
     day_of_week |-> Weekday(check_date),
     start_time  |-> available_hours[Weekday(check_date)].start_time,
     end_time    |-> missed_entry.end_time,
     task_id     |-> missed_entry.task_id]

\* the smallest element of a non-empty set of numbers
Minimum(S) == CHOOSE x \in S : \A y \in S : x <= y

recalculate_schedule_after_miss(original_schedule, missed_date, available_hours, day) ==
    LET updated_schedule == SelectSeq(original_schedule, LAMBDA e : e.date # missed_date)
        missed == SelectSeq(original_schedule, LAMBDA e : e.date = missed_date)
        free == FreeOffsets(updated_schedule, available_hours, day)
    IN  IF missed = <<>> \/ free = {} THEN updated_schedule
        ELSE Append(updated_schedule,
                    Redistributed(missed[1], available_hours, day + Minimum(free)))

\* weekdays from nine to five, three evenings of two hours, every morning
AvailableHours ==
    { [d \in 0 .. 4 |-> [start_time |-> 540, end_time |-> 1020]],
      [d \in {0, 2, 4} |-> [start_time |-> 1080, end_time |-> 1200]],
      [d \in 0 .. 6 |-> [start_time |-> 480, end_time |-> 720]] }

TaskPriorities == {"urgent", "medium"}

\* session_duration_minutes, the default of line 13
session_duration_minutes == 120

\* A schedule is generated for the week from today.
GenerateStudySchedule ==
    /\ planned = <<>>
    /\ \E available_hours \in AvailableHours, sessions_per_day \in 1 .. MaxSessions,
          n \in 0 .. MaxTasks :
          \E priorities \in [1 .. n -> TaskPriorities] :
             planned' = <<[available_hours |-> available_hours,
                           schedule |-> generate_study_schedule(
                                            [i \in 1 .. n |-> [id |-> i,
                                                               priority |-> priorities[i]]],
                                            available_hours, sessions_per_day,
                                            session_duration_minutes, today),
                           original    |-> <<>>,
                           missed_date |-> NoDate,
                           called_on   |-> NoDate,
                           misses      |-> 0]>>
    /\ UNCHANGED <<today, sm2Vars, dueVars, gradeVars, predictVars, attendanceVars,
                   review, browser>>

\* The sessions of a day up to today were missed: the schedule is
\* recalculated and replaces the one in use.
RecalculateAfterMiss ==
    /\ planned # <<>>
    /\ planned[1].misses < MaxMisses
    /\ \E missed_date \in 0 .. today :
          planned' = <<[available_hours |-> planned[1].available_hours,
                        schedule |-> recalculate_schedule_after_miss(
                                         planned[1].schedule, missed_date,
                                         planned[1].available_hours, today),
                        original    |-> planned[1].schedule,
                        missed_date |-> missed_date,
                        called_on   |-> today,
                        misses      |-> planned[1].misses + 1]>>
    /\ UNCHANGED <<today, sm2Vars, dueVars, gradeVars, predictVars, attendanceVars,
                   review, browser>>

InitPlanner ==
    /\ today = 0
    /\ planned = <<>>
    /\ card = NewFlashcard(today)
    /\ args = <<>>
    /\ raised = "none"
    /\ reviews = 0
    /\ fives = 0
    /\ cards = <<>>
    /\ dueCalls = <<>>
    /\ grades = <<>>
    /\ gradeResult = <<>>
    /\ reordered = <<>>
    /\ predicted = <<>>
    /\ course = NewCourse
    /\ timetable = <<>>
    /\ attendance = <<>>
    /\ clicked = <<>>
    /\ review = <<>>
    /\ browser = <<>>

NextPlanner ==
    \/ GenerateStudySchedule
    \/ RecalculateAfterMiss
    \/ AdvanceDay

SpecPlanner == InitPlanner /\ [][NextPlanner]_vars

\* the entries of a schedule on a date, and those on other dates
EntriesOn(schedule, d) == SelectSeq(schedule, LAMBDA e : e.date = d)
EntriesOff(schedule, d) == SelectSeq(schedule, LAMBDA e : e.date # d)

\* an available slot within 13 days of the call that no kept entry takes
FreeSlotExists ==
    \E o \in 1 .. 13 :
        /\ (planned[1].called_on + o) % 7 \in DOMAIN planned[1].available_hours
        /\ \A i \in 1 .. Len(planned[1].original) :
              planned[1].original[i].date = planned[1].called_on + o
                 => \/ planned[1].original[i].date = planned[1].missed_date
                    \/ planned[1].original[i].start_time
                          # planned[1].available_hours[(planned[1].called_on + o) % 7].start_time

\* C26: recalculate_schedule_after_miss returns the entries of the other
\* dates unchanged and, when a free available slot exists in the next 13
\* days, re-adds every entry of the missed date on a later date, so that
\* the schedule keeps its number of entries, also when several sessions
\* were planned on the missed date.
C26_MissedSessionsRedistributed ==
    (planned # <<>> /\ planned[1].misses > 0) =>
        LET kept == EntriesOff(planned[1].original, planned[1].missed_date)
            missed == EntriesOn(planned[1].original, planned[1].missed_date)
            result == planned[1].schedule
        IN  /\ Len(result) >= Len(kept)
            /\ SubSeq(result, 1, Len(kept)) = kept
            /\ FreeSlotExists =>
                  /\ Len(result) = Len(planned[1].original)
                  /\ \A i \in 1 .. Len(missed) :
                        \E j \in (Len(kept) + 1) .. Len(result) :
                           /\ result[j].task_id = missed[i].task_id
                           /\ result[j].end_time = missed[i].end_time
                           /\ result[j].date > planned[1].missed_date

\* C27: within one session, after any sequence of Add Skip and Remove Skip
\* clicks the stored skipped_classes is never negative; Add Skip raises it
\* by exactly 1, counting from 0 when nothing is stored; Remove Skip lowers
\* it by exactly 1 when it is above 0 and leaves it as it is when it is 0
\* or not stored.
C27_SkipCounter ==
    clicked # <<>> =>
        /\ course.skipped_classes # Null => course.skipped_classes >= 0
        /\ clicked[1].button = "add_skip" =>
              course.skipped_classes
                 = (IF clicked[1].stored = Null THEN 0 ELSE clicked[1].stored) + 1
        /\ clicked[1].button = "remove_skip" =>
              IF clicked[1].stored # Null /\ clicked[1].stored > 0
              THEN course.skipped_classes = clicked[1].stored - 1
              ELSE course.skipped_classes = clicked[1].stored

\* the first skip of a course that had nothing stored, and the page shows it
C27_Witness ==
    /\ clicked # <<>>
    /\ clicked[1].button = "add_skip"
    /\ clicked[1].stored = Null
    /\ course.skipped_classes = 1
    /\ attendance[1].skipped_classes = 1

\* C28: for a card made by initialize_card, a review with quality >= 3
\* never shortens the interval, and from the third successful review in a
\* row on (repetitions >= 2 before the review) the new interval is strictly
\* longer than the one before, whatever the easiness (>= 1.3).
C28_IntervalGrowth ==
    (Called /\ Arg.quality >= 3) =>
        /\ card.interval_days >= Arg.interval_days
        /\ Arg.repetitions >= 2 => card.interval_days > Arg.interval_days

\* the fourth success in a row of a card whose easiness sits at the floor:
\* the interval still grows, from 7 to 9
C28_Witness ==
    /\ Called
    /\ Arg.quality = 3
    /\ Arg.repetitions = 3
    /\ card.easiness_factor = SM2_MIN_EASINESS
    /\ Arg.interval_days = 7
    /\ card.interval_days = 9

\* ---------------------------------------------------------------------
\* Two browser sessions on the attendance tab of the same course.
\* Streamlit runs each session's script in its own thread; every rerun
\* opens its own database session (line 18), loads the course rows (line
\* 22), and the button branch writes the loaded value plus one (lines
\* 156-157).  Nothing orders the statements of one rerun against those of
\* another, so the steps of the two sessions interleave freely.
\* ---------------------------------------------------------------------

\* the two sessions
Browsers == {1, 2}

\* the page of a session between two reruns
IdlePage(shown, handled) ==
    [script |-> "idle", skipped_classes |-> shown, handled |-> handled]

\* lines 18-22 of the rerun that an Add Skip click starts: the course row
\* is read into this rerun's own database session
LoadCourse(s) ==
    /\ browser # <<>>
    /\ browser[s].script = "idle"
    /\ browser[s].handled < MaxClicks
    /\ browser' = [browser EXCEPT ![s] = [@ EXCEPT !.script = "loaded",
                                                  !.skipped_classes = course.skipped_classes]]
    /\ UNCHANGED <<today, attendanceVars, sm2Vars, dueVars, gradeVars, predictVars,
                   review, planned>>

\* lines 155-158: the button branch adds one to the value this rerun
\* loaded, commits it and asks for a rerun
CommitSkip(s) ==
    /\ browser # <<>>
    /\ browser[s].script = "loaded"
    /\ course' = [course EXCEPT !.skipped_classes = OrElse(browser[s].skipped_classes, 0) + 1]
    /\ clicked' = <<[button |-> "add_skip", stored |-> browser[s].skipped_classes]>>
    /\ browser' = [browser EXCEPT ![s] = [@ EXCEPT !.script = "rerun",
                                                  !.skipped_classes = course'.skipped_classes,
                                                  !.handled = @ + 1]]
    /\ UNCHANGED <<today, timetable, attendance, sm2Vars, dueVars, gradeVars, predictVars,
                   review, planned>>

\* line 159, st.rerun(): the page is run again without a click, it reads
\* the row as it is now and shows the panel
RerunPage(s) ==
    /\ browser # <<>>
    /\ browser[s].script = "rerun"
    /\ browser' = [browser EXCEPT ![s] = IdlePage(course.skipped_classes, @.handled)]
    /\ attendance' = <<AttendanceView(course, timetable)>>
    /\ UNCHANGED <<today, course, timetable, clicked, sm2Vars, dueVars, gradeVars,
                   predictVars, review, planned>>

\* both sessions have the course on screen, nothing has been clicked
InitTwoSessions ==
    /\ course \in [start_date           : {0},
                    end_date             : CourseEnds,
                    skipped_classes      : {Null, 0},
                    attendance_threshold : {FloatOfInt(DEFAULT_THRESHOLD)}]
    /\ timetable = <<>>
    /\ attendance = <<AttendanceView(course, timetable)>>
    /\ clicked = <<>>
    /\ browser = [s \in Browsers |-> IdlePage(course.skipped_classes, 0)]
    /\ today = 0
    /\ card = NewFlashcard(today)
    /\ args = <<>>
    /\ raised = "none"
    /\ reviews = 0
    /\ fives = 0
    /\ cards = <<>>
    /\ dueCalls = <<>>
    /\ grades = <<>>
    /\ gradeResult = <<>>
    /\ reordered = <<>>
    /\ predicted = <<>>
    /\ review = <<>>
    /\ planned = <<>>

NextTwoSessions ==
    \/ \E s \in Browsers : LoadCourse(s)
    \/ \E s \in Browsers : CommitSkip(s)
    \/ \E s \in Browsers : RerunPage(s)

SpecTwoSessions == InitTwoSessions /\ [][NextTwoSessions]_vars

\* the Add Skip clicks that have been committed, over all sessions
HandledClicks == SumOver(Browsers, [s \in Browsers |-> browser[s].handled])

\* C30: no Add Skip click is lost.  Whenever no session is between its
\* read and its commit, the stored skipped_classes (which started at 0 or
\* null) equals the number of clicks the sessions have processed, so two
\* interleaved clicks raise it by 2.
C30_NoLostSkipUpdates ==
    (browser # <<>> /\ \A s \in Browsers : browser[s].script # "loaded") =>
        OrElse(course.skipped_classes, 0) = HandledClicks

====
